---- MODULE Spec2Model ----
(***************************************************************************)
(* Gateway bridge of the LoRaWAN device simulator (InfiniteDevices/lds):   *)
(* the MQTT channel (mqtt.go: connectClient, mqttForm) and the raw UDP     *)
(* packet-forwarder client (forwarderConnect, lds.NSClient).               *)
(*                                                                         *)
(* Strings the code parses (UDP port, gateway MAC, server address) are     *)
(* sequences of one-character strings so that strconv.Atoi,                *)
(* hex.DecodeString and net.ParseIP are computed, not assumed.             *)
(***************************************************************************)
EXTENDS Integers, Sequences, FiniteSets, TLC

VARIABLES
    config,          \* *tomlConfig: Forwarder.Server, Forwarder.Port, GW.MAC
    cNSClient,       \* lds.NSClient: Server, Port, connected
    tasks,           \* the goroutines started by `go evio.Serve(...)`, in creation order:
                     \* port, state, datagrams queued on the socket, datagram in the handler
    clients,         \* the paho clients created by connectClient, in creation order
    mqttClient,      \* package variable mqttClient: 0 is nil, else an index of clients
    connectShown,    \* the last frame laid out the MQTT "Connect" button
    disconnectShown, \* the last frame laid out the MQTT "Disconnect" button
    crashed,         \* a nil-interface method call panicked
    ret,             \* what the last call returned to its caller, and what it logged
    inbound,         \* the UDP datagrams that arrived and the calls of onReceive
    codec            \* the last call of a codec function: its input and result

vars == <<config, cNSClient, tasks, clients, mqttClient, connectShown,
          disconnectShown, crashed, ret, inbound, codec>>

----------------------------------------------------------------------------
(* Bounds of the model *)

\* goroutines `go evio.Serve` the model lets Connect start
MaxListeners == 2
\* paho clients the model lets connectClient create
MaxClients == 2
\* queued clicks of one button that one frame processes
MaxClicks == 1

----------------------------------------------------------------------------
(* Input alphabets *)

Digit == {"0", "1", "2", "3", "4", "5", "6", "7", "8", "9"}

DigitVal(c) ==
    CASE c = "0" -> 0 [] c = "1" -> 1 [] c = "2" -> 2 [] c = "3" -> 3
      [] c = "4" -> 4 [] c = "5" -> 5 [] c = "6" -> 6 [] c = "7" -> 7
      [] c = "8" -> 8 [] c = "9" -> 9

\* values of the gateway MAC: 16 hex characters, and a string that is not hex
MACStrings ==
    { <<"0", "0", "1", "1", "2", "2", "3", "3", "4", "4", "5", "5", "6", "6", "7", "7">>,
      <<"z", "z">> }

----------------------------------------------------------------------------
(* Library functions the code calls, computed on character sequences *)

RECURSIVE DecimalValue(_)
DecimalValue(s) ==
    IF s = <<>> THEN 0
    ELSE 10 * DecimalValue(SubSeq(s, 1, Len(s) - 1)) + DigitVal(s[Len(s)])

AllDigits(s) == \A i \in 1..Len(s) : s[i] \in Digit

\* strconv.Atoi: an optional sign, then one or more decimal digits
Atoi(s) ==
    LET signed == Len(s) > 0 /\ s[1] \in {"+", "-"}
        body   == IF signed THEN SubSeq(s, 2, Len(s)) ELSE s
    IN  IF Len(body) = 0 \/ ~AllDigits(body)
        THEN [ok |-> FALSE, val |-> 0]
        ELSE [ok |-> TRUE,
              val |-> IF signed /\ s[1] = "-" THEN 0 - DecimalValue(body)
                      ELSE DecimalValue(body)]

HexDigit == Digit \cup {"a", "b", "c", "d", "e", "f", "A", "B", "C", "D", "E", "F"}

\* hex.DecodeString succeeds on an even number of hex digits
HexDecodeOk(s) == Len(s) % 2 = 0 /\ \A i \in 1..Len(s) : s[i] \in HexDigit

\* the dot-separated fields of s
RECURSIVE Fields(_)
Fields(s) ==
    IF \A i \in 1..Len(s) : s[i] # "."
    THEN <<s>>
    ELSE LET k == CHOOSE i \in 1..Len(s) :
                      s[i] = "." /\ \A j \in 1..(i - 1) : s[j] # "."
         IN  <<SubSeq(s, 1, k - 1)>> \o Fields(SubSeq(s, k + 1, Len(s)))

\* net.ParseIP, dotted-decimal IPv4 form: four fields of 1..3 digits, each
\* at most 255 and without a leading zero.  (No input of the model is an
\* IPv6 literal.)
ParseIPOk(s) ==
    LET f == Fields(s)
    IN  /\ Len(f) = 4
        /\ \A i \in 1..4 :
              /\ Len(f[i]) \in 1..3
              /\ AllDigits(f[i])
              /\ (Len(f[i]) > 1 => f[i][1] # "0")
              /\ DecimalValue(f[i]) <= 255

----------------------------------------------------------------------------
(* State after construction *)

\* the configuration files importConf can decode: the [forwarder] table of
\* each is one of four, the gateway MAC one of two
ForwarderTables ==
    { [Server |-> <<"1", "0", ".", "0", ".", "0", ".", "1">>, Port |-> <<"1", "7", "0", "0">>],
      [Server |-> <<"1", "0", ".", "0", ".", "0", ".", "1">>, Port |-> <<"1", "7", "0", "1">>],
      [Server |-> <<"n", "s", ".", "l", "a", "n">>,           Port |-> <<"1", "7", "0", "0">>],
      [Server |-> <<"1", "0", ".", "0", ".", "0", ".", "1">>, Port |-> <<"1", "7", "o", "o">>] }

Configs ==
    { [Server |-> f.Server, Port |-> f.Port, MAC |-> mac] :
          f \in ForwarderTables, mac \in MACStrings }

\* evio.Serve can bind `port` next to the listeners that already serve
PortFree(ts, port) ==
    /\ port \in 0..65535
    /\ \A i \in 1..Len(ts) : ~(ts[i].st = "serving" /\ ts[i].port = port)

NoRet == [op |-> "none", err |-> "nil", send |-> "none", task |-> 0, disc |-> 0,
          log |-> <<>>]

Init ==
    /\ config \in Configs
    /\ cNSClient = [Server |-> <<>>, Port |-> 0, connected |-> FALSE]
    /\ tasks = <<>>
    /\ clients = <<>>
    /\ mqttClient = 0
    /\ connectShown = FALSE
    /\ disconnectShown = FALSE
    /\ crashed = FALSE
    /\ ret = NoRet
    /\ inbound = [arrived |-> 0, calls |-> <<>>]
    /\ codec = [op |-> "none"]

----------------------------------------------------------------------------
(* Configuration *)

\* importConf decodes the configuration file into config
importConf ==
    /\ ~crashed
    /\ \E c \in Configs : config' = c
    /\ UNCHANGED <<cNSClient, tasks, clients, mqttClient, connectShown,
                   disconnectShown, crashed, ret,
                   inbound, codec>>

----------------------------------------------------------------------------
(* UDP packet forwarder *)

\* NSClient.IsConnected
IsConnected == cNSClient.connected

\* NSClient.Connect: installs the Data handler, starts evio.Serve in its own
\* goroutine on the client's port, sets connected and returns nil.  The
\* value is the pair of the client and the goroutines after the call.
Connect(client, ts) ==
    [client |-> [client EXCEPT !.connected = TRUE],
     tasks  |-> Append(ts, [port |-> client.Port, st |-> "starting",
                            queue |-> <<>>, cur |-> 0]),
     err    |-> "nil"]

\* forwarderConnect as it would be with the server copied into cNSClient
\* before the port is parsed
forwarderConnect_AssignsBeforeParse ==
    /\ ~crashed
    /\ Len(tasks) < MaxListeners
    /\ LET port == Atoi(config.Port)
           early == [cNSClient EXCEPT !.Server = config.Server]
       IN  IF ~port.ok
           THEN /\ ret' = [NoRet EXCEPT !.op = "forwarderConnect", !.err = "atoi"]
                /\ cNSClient' = early
                /\ UNCHANGED tasks
           ELSE LET c == Connect([early EXCEPT !.Port = port.val], tasks)
                IN  /\ cNSClient' = c.client
                    /\ tasks' = c.tasks
                    /\ ret' = [NoRet EXCEPT !.op = "forwarderConnect",
                                            !.task = Len(c.tasks)]
    /\ UNCHANGED <<config, clients, mqttClient, connectShown, disconnectShown,
                   crashed, inbound, codec>>

\* forwarderConnect: parses the port, copies server and port into cNSClient
\* and calls Connect, whose result it does not read.
forwarderConnect ==
    /\ ~crashed
    /\ Len(tasks) < MaxListeners
    /\ LET port == Atoi(config.Port)
       IN  IF ~port.ok
           THEN /\ ret' = [NoRet EXCEPT !.op = "forwarderConnect", !.err = "atoi"]
                /\ UNCHANGED <<cNSClient, tasks>>
           ELSE LET c == Connect([cNSClient EXCEPT !.Server = config.Server,
                                                   !.Port = port.val], tasks)
                IN  /\ cNSClient' = c.client
                    /\ tasks' = c.tasks
                    /\ ret' = [NoRet EXCEPT !.op = "forwarderConnect",
                                            !.task = Len(c.tasks)]
    /\ UNCHANGED <<config, clients, mqttClient, connectShown, disconnectShown,
                   crashed, inbound, codec>>

\* The goroutine of evio.Serve: it binds the UDP port and serves, or returns
\* its error to nobody when the bind fails (port out of range, port held by
\* an earlier listener of this process or, bindOk false, by another process).
evioServe ==
    /\ ~crashed
    /\ \E i \in 1..Len(tasks), bindOk \in BOOLEAN :
          /\ tasks[i].st = "starting"
          /\ tasks' = [tasks EXCEPT ![i].st =
                          IF bindOk /\ PortFree(tasks, tasks[i].port)
                          THEN "serving" ELSE "exited"]
    /\ UNCHANGED <<config, cNSClient, clients, mqttClient, connectShown,
                   disconnectShown, crashed, ret,
                   inbound, codec>>

\* NSClient.send: what it returns for the server address and the outcomes of
\* DialUDP and Write
send(client, dialOk, writeOk) ==
    IF ~ParseIPOk(client.Server) THEN "badip"
    ELSE IF ~dialOk THEN "dial"
    ELSE IF ~writeOk THEN "write"
    ELSE "nil"

\* sendWithPayload as it would be if a failed send marked the client
\* disconnected
sendWithPayload_DropsConnection ==
    /\ ~crashed
    /\ \E gwMAC \in MACStrings, snrFinite \in BOOLEAN, dialOk \in BOOLEAN,
          writeOk \in BOOLEAN :
          IF ~snrFinite
          THEN /\ ret' = [NoRet EXCEPT !.op = "sendWithPayload", !.err = "marshal"]
               /\ UNCHANGED cNSClient
          ELSE IF ~HexDecodeOk(gwMAC)
          THEN /\ ret' = [NoRet EXCEPT !.op = "sendWithPayload", !.err = "hex"]
               /\ UNCHANGED cNSClient
          ELSE LET e == send(cNSClient, dialOk, writeOk)
               IN  /\ ret' = [NoRet EXCEPT !.op = "sendWithPayload", !.send = e]
                   /\ cNSClient' = [cNSClient EXCEPT !.connected = @ /\ e = "nil"]
    /\ UNCHANGED <<config, tasks, clients, mqttClient, connectShown,
                   disconnectShown, crashed, inbound, codec>>

\* NSClient.sendWithPayload: json.Marshal fails on a signal-to-noise ratio
\* that is NaN or infinite (snrFinite false); hex.DecodeString fails on a MAC
\* that is not hex; the result of send is dropped and nil is returned.
sendWithPayload ==
    /\ ~crashed
    /\ \E gwMAC \in MACStrings, snrFinite \in BOOLEAN, dialOk \in BOOLEAN,
          writeOk \in BOOLEAN :
          ret' = IF ~snrFinite
                 THEN [NoRet EXCEPT !.op = "sendWithPayload", !.err = "marshal"]
                 ELSE IF ~HexDecodeOk(gwMAC)
                 THEN [NoRet EXCEPT !.op = "sendWithPayload", !.err = "hex"]
                 ELSE [NoRet EXCEPT !.op = "sendWithPayload",
                                    !.send = send(cNSClient, dialOk, writeOk)]
    /\ UNCHANGED <<config, cNSClient, tasks, clients, mqttClient, connectShown,
                   disconnectShown, crashed, inbound, codec>>

----------------------------------------------------------------------------
(* UDP listener loop *)

\* datagrams the model lets arrive at the listeners
MaxDatagrams == 2

\* what onReceive (onIncomingDownlink) returns to the Data handler
HandlerResults == {"nil", "error"}

\* A datagram arrives at the socket of a listener that serves.  Datagrams
\* are numbered in the order of their arrival.
datagramArrives ==
    /\ ~crashed
    /\ inbound.arrived < MaxDatagrams
    /\ \E i \in 1..Len(tasks) :
          /\ tasks[i].st = "serving"
          /\ tasks' = [tasks EXCEPT ![i].queue = Append(@, inbound.arrived + 1)]
    /\ inbound' = [inbound EXCEPT !.arrived = @ + 1]
    /\ UNCHANGED <<config, cNSClient, clients, mqttClient, connectShown,
                   disconnectShown, crashed, ret, codec>>

\* The loop of listener i reads the next datagram of its socket and calls
\* the Data handler, which calls onReceive(in).  The loop is in no other
\* handler: evio.Serve runs one loop (NumLoops is not set).
onReceive(i) ==
    /\ ~crashed
    /\ i \in 1..Len(tasks)
    /\ tasks[i].st = "serving"
    /\ tasks[i].cur = 0
    /\ tasks[i].queue # <<>>
    /\ tasks' = [tasks EXCEPT ![i].cur = Head(tasks[i].queue),
                              ![i].queue = Tail(tasks[i].queue)]
    /\ inbound' = [inbound EXCEPT !.calls =
                      Append(@, [task |-> i, id |-> Head(tasks[i].queue),
                                 res |-> "running"])]
    /\ UNCHANGED <<config, cNSClient, clients, mqttClient, connectShown,
                   disconnectShown, crashed, ret, codec>>

\* the calls of onReceive with the result of the one that runs on listener i
Returned(calls, i, res) ==
    [k \in 1..Len(calls) |->
        IF calls[k].task = i /\ calls[k].res = "running"
        THEN [calls[k] EXCEPT !.res = res] ELSE calls[k]]

\* the Data handler as it would be if it answered an error of onReceive with
\* the action evio.Shutdown
Data_ShutdownOnError(i) ==
    /\ ~crashed
    /\ i \in 1..Len(tasks)
    /\ tasks[i].cur # 0
    /\ \E res \in HandlerResults :
          /\ inbound' = [inbound EXCEPT !.calls = Returned(@, i, res)]
          /\ tasks' = [tasks EXCEPT ![i].cur = 0,
                                    ![i].st = IF res = "error" THEN "exited" ELSE @,
                                    ![i].queue = IF res = "error" THEN <<>> ELSE @]
    /\ UNCHANGED <<config, cNSClient, clients, mqttClient, connectShown,
                   disconnectShown, crashed, ret, codec>>

\* The Data handler of listener i after onReceive returned: the result of
\* onReceive is dropped, out is nil and the action is the zero value
\* (evio.None), so the loop goes on with the next datagram.
Data(i) ==
    /\ ~crashed
    /\ i \in 1..Len(tasks)
    /\ tasks[i].cur # 0
    /\ \E res \in HandlerResults :
          inbound' = [inbound EXCEPT !.calls = Returned(@, i, res)]
    /\ tasks' = [tasks EXCEPT ![i].cur = 0]
    /\ UNCHANGED <<config, cNSClient, clients, mqttClient, connectShown,
                   disconnectShown, crashed, ret, codec>>

----------------------------------------------------------------------------
(* MQTT channel *)

\* the MQTT part of the state, as connectClient and Disconnect read and write it
MQTT == [clients |-> clients, mqttClient |-> mqttClient, err |-> "nil",
         crashed |-> crashed, log |-> <<>>]

\* the entries connectClient writes to the log: the level, and the operation
\* the message is about
LogConnecting  == [level |-> "info",  about |-> "connect", msg |-> "MQTT connecting..."]
LogConnError   == [level |-> "error", about |-> "connect", msg |-> "connection error"]
LogEstablished == [level |-> "info",  about |-> "connect", msg |-> "connection established"]

\* connectClient as it would be without the return that follows a failed
\* Connect: the subscription is made whatever the connection did
connectClient_NoEarlyReturn(m, broker) ==
    [m EXCEPT !.clients = Append(m.clients, [connected  |-> broker # "refused",
                                             subscribed |-> TRUE]),
              !.mqttClient = Len(m.clients) + 1,
              !.err = IF broker # "refused" THEN "nil" ELSE "connect",
              !.log = m.log \o <<LogConnecting>> \o
                      (IF broker # "refused" THEN <<LogEstablished>>
                       ELSE <<LogConnError>>)]

\* connectClient: a new paho client replaces mqttClient; when Connect fails
\* its error is logged and returned, else the downlink topic is subscribed
\* (the token of Subscribe is not read, so nothing is logged about it) and
\* nil is returned.
connectClient(m, broker) ==
    LET connOk == broker # "refused"
        subOk  == broker = "ok"
    IN
    [m EXCEPT !.clients = Append(m.clients, [connected  |-> connOk,
                                             subscribed |-> connOk /\ subOk]),
              !.mqttClient = Len(m.clients) + 1,
              !.err = IF connOk THEN "nil" ELSE "connect",
              !.log = m.log \o <<LogConnecting>> \o
                      (IF connOk THEN <<LogEstablished>> ELSE <<LogConnError>>)]

\* mqttClient.Disconnect(200): a method call on the nil interface panics;
\* paho ends the session of a connected client and only warns otherwise.
Disconnect(m) ==
    IF m.mqttClient = 0
    THEN [m EXCEPT !.crashed = TRUE]
    ELSE [m EXCEPT !.clients[m.mqttClient] =
                       [connected |-> FALSE, subscribed |-> FALSE]]

RECURSIVE connectClicks(_, _)
connectClicks(m, outs) ==
    IF outs = <<>> THEN m
    ELSE connectClicks(connectClient(m, Head(outs)), Tail(outs))

RECURSIVE disconnectClicks(_, _)
disconnectClicks(m, n) ==
    IF n = 0 \/ m.crashed THEN m ELSE disconnectClicks(Disconnect(m), n - 1)

\* what the broker does with a client: it refuses the connection, accepts it
\* and fails the subscription, or accepts both
BrokerOutcomes == {"refused", "nosub", "ok"}

\* the outcomes of the broker for the clicks one frame can process
ClickOutcomes(n) == UNION { [1..k -> BrokerOutcomes] : k \in 0..n }

\* mqttForm, one frame: the editors are copied into config, the queued clicks
\* of the Connect button call connectClient, those of the Disconnect button
\* call mqttClient.Disconnect, and the buttons are laid out again.
mqttForm ==
    /\ ~crashed
    /\ \E mac \in MACStrings,
          outs \in ClickOutcomes(IF connectShown THEN MaxClicks ELSE 0),
          d \in 0..(IF disconnectShown THEN MaxClicks ELSE 0) :
          /\ Len(clients) + Len(outs) <= MaxClients
          /\ LET m1 == connectClicks(MQTT, outs)
                 m2 == disconnectClicks(m1, d)
             IN  /\ config' = [config EXCEPT !.MAC = mac]
                 /\ clients' = m2.clients
                 /\ mqttClient' = m2.mqttClient
                 /\ crashed' = m2.crashed
                 /\ connectShown' = ~IsConnected
                 /\ disconnectShown' =
                        (m2.mqttClient # 0 /\ m2.clients[m2.mqttClient].connected)
                 /\ ret' = [NoRet EXCEPT
                              !.op = IF outs # <<>> THEN "connectClient" ELSE "mqttForm",
                              !.err = m1.err, !.disc = d, !.log = m1.log]
    /\ UNCHANGED <<cNSClient, tasks, inbound, codec>>

----------------------------------------------------------------------------
(* Packet codec: inbound datagrams *)

\* longest inbound datagram the model parses
MaxPacketLen == 5

\* the sequences over S of length at most n
SeqsUpTo(S, n) == UNION { [1..k -> S] : k \in 0..n }

\* bytes of inbound datagrams: 2 is the protocol version, 3 is PULL_RESP
PacketBytes == {0, 2, 3, 255}

Packets == SeqsUpTo(PacketBytes, MaxPacketLen)

\* the struct UDPParsePacket reads the header into: field names as written
\* (all lower case, so unexported) and sizes in bytes
HeaderFields ==
    << [name |-> "version", exported |-> FALSE, size |-> 1],
       [name |-> "token",   exported |-> FALSE, size |-> 2],
       [name |-> "id",      exported |-> FALSE, size |-> 1] >>

\* a byte read as int8
Int8(b) == IF b >= 128 THEN b - 256 ELSE b

\* binary.Read(buf, binary.LittleEndian, &data): io.ReadFull of the struct's
\* size fails on a shorter input (io.EOF on none, io.ErrUnexpectedEOF
\* otherwise); then every non-blank field is set by reflection, which panics
\* on an unexported field.
binaryRead(packet) ==
    LET size == HeaderFields[1].size + HeaderFields[2].size + HeaderFields[3].size
    IN  IF Len(packet) < size
        THEN [panic |-> FALSE,
              err |-> IF Len(packet) = 0 THEN "EOF" ELSE "unexpected EOF",
              id |-> 0]
        ELSE IF \E i \in 1..Len(HeaderFields) : ~HeaderFields[i].exported
        THEN [panic |-> TRUE, err |-> "nil", id |-> 0]
        ELSE [panic |-> FALSE, err |-> "nil", id |-> Int8(packet[size])]

\* UDPParsePacket: the header is read; an error of the read is returned; a
\* message id other than PULL_RESP is not a downlink; for PULL_RESP the body
\* is printed, *result becomes an empty map and (false, nil) is returned.
UDPParsePacket(packet) ==
    LET r == binaryRead(packet)
    IN  IF r.panic
        THEN [panic |-> TRUE, isDownlink |-> FALSE, err |-> "nil", result |-> "unset"]
        ELSE IF r.err # "nil"
        THEN [panic |-> FALSE, isDownlink |-> FALSE, err |-> r.err, result |-> "unset"]
        ELSE IF r.id # 3
        THEN [panic |-> FALSE, isDownlink |-> FALSE, err |-> "nil", result |-> "unset"]
        ELSE [panic |-> FALSE, isDownlink |-> FALSE, err |-> "nil", result |-> "empty"]

\* a call of UDPParsePacket on an inbound datagram (the function is pure:
\* a behaviour makes one codec call, on any of the inputs)
parsePacket ==
    /\ ~crashed
    /\ codec.op = "none"
    /\ \E packet \in Packets :
          codec' = [op |-> "UDPParsePacket", packet |-> packet,
                    out |-> UDPParsePacket(packet)]
    /\ UNCHANGED <<config, cNSClient, tasks, clients, mqttClient, connectShown,
                   disconnectShown, crashed, ret, inbound>>

----------------------------------------------------------------------------
(* Packet codec: outbound PUSH_DATA *)

\* longest physical payload the model encodes
MaxPayloadLen == 3

PayloadBytes == {0, 77, 255}

Payloads == SeqsUpTo(PayloadBytes, MaxPayloadLen)

\* gateway MACs given to sendWithPayload: those of the configuration, and a
\* hex string of 2 bytes
SendMACs == MACStrings \cup { <<"0", "0", "1", "1">> }

\* values of rand.Int(): below and above 16 bits
Tokens == {0, 4660, 74565}

\* gw.UplinkRXInfo: time since GPS epoch (seconds, nanoseconds), and whether
\* the LoRa SNR is a finite float
RXInfos ==
    [gps : { [Seconds |-> 0, Nanos |-> 0], [Seconds |-> 1, Nanos |-> 0],
             [Seconds |-> 1, Nanos |-> 500000000],
             [Seconds |-> 86400, Nanos |-> 999999999] },
     snrFinite : BOOLEAN]

\* gw.UplinkTXInfo: LoRa modulation info
TXInfos == [SpreadingFactor : {7, 12}, Bandwidth : {125, 500}]

DigitChar(d) == CHOOSE c \in Digit : DigitVal(c) = d

\* fmt's %d of a natural number
RECURSIVE Itoa(_)
Itoa(n) == IF n < 10 THEN <<DigitChar(n)>> ELSE Itoa(n \div 10) \o <<DigitChar(n % 10)>>

HexVal(c) ==
    IF c \in Digit THEN DigitVal(c)
    ELSE CASE c \in {"a", "A"} -> 10 [] c \in {"b", "B"} -> 11
           [] c \in {"c", "C"} -> 12 [] c \in {"d", "D"} -> 13
           [] c \in {"e", "E"} -> 14 [] c \in {"f", "F"} -> 15

\* hex.DecodeString on a string it accepts: one byte for two digits
HexDecode(s) == [i \in 1..(Len(s) \div 2) |-> 16 * HexVal(s[2 * i - 1]) + HexVal(s[2 * i])]

\* the alphabet of base64.StdEncoding
B64Alphabet ==
    << "A", "B", "C", "D", "E", "F", "G", "H", "I", "J", "K", "L", "M", "N", "O", "P",
       "Q", "R", "S", "T", "U", "V", "W", "X", "Y", "Z", "a", "b", "c", "d", "e", "f",
       "g", "h", "i", "j", "k", "l", "m", "n", "o", "p", "q", "r", "s", "t", "u", "v",
       "w", "x", "y", "z", "0", "1", "2", "3", "4", "5", "6", "7", "8", "9", "+", "/" >>

B64Char(v) == B64Alphabet[v + 1]

\* base64.RawStdEncoding: the same without the padding characters
RECURSIVE Base64Encode_NoPadding(_)
Base64Encode_NoPadding(b) ==
    IF Len(b) = 0 THEN <<>>
    ELSE IF Len(b) = 1
    THEN <<B64Char(b[1] \div 4), B64Char((b[1] % 4) * 16)>>
    ELSE IF Len(b) = 2
    THEN <<B64Char(b[1] \div 4), B64Char((b[1] % 4) * 16 + b[2] \div 16),
           B64Char((b[2] % 16) * 4)>>
    ELSE <<B64Char(b[1] \div 4), B64Char((b[1] % 4) * 16 + b[2] \div 16),
           B64Char((b[2] % 16) * 4 + b[3] \div 64), B64Char(b[3] % 64)>>
         \o Base64Encode_NoPadding(SubSeq(b, 4, Len(b)))

\* base64.StdEncoding.EncodeToString: 3 bytes give 4 characters, the last
\* group is padded with "="
RECURSIVE Base64Encode(_)
Base64Encode(b) ==
    IF Len(b) = 0 THEN <<>>
    ELSE IF Len(b) = 1
    THEN <<B64Char(b[1] \div 4), B64Char((b[1] % 4) * 16), "=", "=">>
    ELSE IF Len(b) = 2
    THEN <<B64Char(b[1] \div 4), B64Char((b[1] % 4) * 16 + b[2] \div 16),
           B64Char((b[2] % 16) * 4), "=">>
    ELSE <<B64Char(b[1] \div 4), B64Char((b[1] % 4) * 16 + b[2] \div 16),
           B64Char((b[2] % 16) * 4 + b[3] \div 64), B64Char(b[3] % 64)>>
         \o Base64Encode(SubSeq(b, 4, Len(b)))

\* toMilliseconds: seconds times 1000 plus nanoseconds divided by 1000
\* (uint64; the inputs of the model stay far below 2^64)
toMilliseconds(d) == d.Seconds * 1000 + d.Nanos \div 1000

\* the pfpacket with spreading factor and bandwidth exchanged in datr
pfpacket_BandwidthFirst(payload, rx, tx) ==
    [TMMS |-> toMilliseconds(rx.gps) \div 1000,
     TMST |-> (toMilliseconds(rx.gps) \div 1000) \div 1000,
     Stat |-> 1,
     Modu |-> "LORA",
     DatR |-> <<"S", "F">> \o Itoa(tx.Bandwidth) \o <<"B", "W">> \o Itoa(tx.SpreadingFactor),
     LSNRFinite |-> rx.snrFinite,
     Size |-> Len(payload),
     Data |-> Base64Encode(payload)]

\* the pfpacket sendWithPayload fills in.  Time, Chan, RFCH, Freq, CodR and
\* RSSI are copies of the clock and of the metadata that nothing below
\* reads; of LSNR only whether json.Marshal can encode it is kept.
pfpacket(payload, rx, tx) ==
    [TMMS |-> toMilliseconds(rx.gps) \div 1000,
     TMST |-> (toMilliseconds(rx.gps) \div 1000) \div 1000,
     Stat |-> 1,
     Modu |-> "LORA",
     DatR |-> <<"S", "F">> \o Itoa(tx.SpreadingFactor) \o <<"B", "W">> \o Itoa(tx.Bandwidth),
     LSNRFinite |-> rx.snrFinite,
     Size |-> Len(payload),
     Data |-> Base64Encode(payload)]

\* sendWithPayload up to the call of client.send: the rxpk body, the error
\* returned before the send (json.Marshal refuses NaN and infinities,
\* hex.DecodeString a MAC that is not hex) and the datagram handed to send:
\* header {version, token msb, token lsb, id}, MAC bytes, JSON body.
sendWithPayloadFrame(payload, gwMAC, rx, tx, token) ==
    LET proto  == [rxpk |-> <<pfpacket(payload, rx, tx)>>]
        header == <<2, (token \div 256) % 256, token % 256, 0>>
    IN  IF ~proto.rxpk[1].LSNRFinite
        THEN [err |-> "marshal", proto |-> proto, sent |-> FALSE, head |-> <<>>]
        ELSE IF ~HexDecodeOk(gwMAC)
        THEN [err |-> "hex", proto |-> proto, sent |-> FALSE, head |-> <<>>]
        ELSE [err |-> "nil", proto |-> proto, sent |-> TRUE,
              head |-> header \o HexDecode(gwMAC)]

\* a call of sendWithPayload, seen as the encoder of the PUSH_DATA datagram
encodeUplink ==
    /\ ~crashed
    /\ codec.op = "none"
    /\ \E payload \in Payloads, gwMAC \in SendMACs, rx \in RXInfos,
          tx \in TXInfos, token \in Tokens :
          codec' = [op |-> "sendWithPayload", payload |-> payload, gwMAC |-> gwMAC,
                    rx |-> rx, tx |-> tx, token |-> token,
                    out |-> sendWithPayloadFrame(payload, gwMAC, rx, tx, token)]
    /\ UNCHANGED <<config, cNSClient, tasks, clients, mqttClient, connectShown,
                   disconnectShown, crashed, ret, inbound>>

----------------------------------------------------------------------------

Next ==
    \/ importConf
    \/ forwarderConnect
    \/ evioServe
    \/ sendWithPayload
    \/ mqttForm

\* the connection life cycle of both transports (the datagram traffic of the
\* listeners and the packet codec have specifications of their own)
Spec == Init /\ [][Next]_vars

\* the UDP packet forwarder alone: no frame of the MQTT form runs
NextForwarder ==
    \/ importConf
    \/ forwarderConnect
    \/ evioServe
    \/ sendWithPayload

SpecForwarder == Init /\ [][NextForwarder]_vars

\* the MQTT channel alone: forwarderConnect is never called
NextMQTT ==
    \/ importConf
    \/ mqttForm

SpecMQTT == Init /\ [][NextMQTT]_vars

\* the UDP listeners and their datagram traffic
NextListener ==
    \/ importConf
    \/ forwarderConnect
    \/ evioServe
    \/ datagramArrives
    \/ \E i \in 1..Len(tasks) : onReceive(i)
    \/ \E i \in 1..Len(tasks) : Data(i)

SpecListener == Init /\ [][NextListener]_vars

\* the listeners of one configuration (importConf is not called again), with
\* the loop of every listener running on: a datagram that waits on the socket
\* of an idle loop is read, and onReceive returns
NextListenerFair ==
    \/ forwarderConnect
    \/ evioServe
    \/ datagramArrives
    \/ \E i \in 1..Len(tasks) : onReceive(i)
    \/ \E i \in 1..Len(tasks) : Data(i)

SpecListenerFair ==
    /\ Init
    /\ [][NextListenerFair]_vars
    /\ \A i \in 1..MaxListeners : WF_vars(onReceive(i)) /\ WF_vars(Data(i))

\* the packet codec alone: its functions applied to inputs of bounded size
NextCodec ==
    \/ parsePacket
    \/ encodeUplink

SpecCodec == Init /\ [][NextCodec]_vars

----------------------------------------------------------------------------
(* Observations the claims are stated in *)

\* some paho client created by connectClient is connected to the broker
MQTTConnected == \E i \in 1..Len(clients) : clients[i].connected

\* the goroutines of evio.Serve that have not returned
LiveListeners == { i \in 1..Len(tasks) : tasks[i].st # "exited" }

\* the goroutines of evio.Serve that hold a bound socket
ServingListeners == { i \in 1..Len(tasks) : tasks[i].st = "serving" }

----------------------------------------------------------------------------
(* Claims *)

\* C1: at most one of the two transports is active at any time: never an
\* MQTT client connected while the UDP forwarder is connected.
C1_AtMostOneTransport == ~(MQTTConnected /\ IsConnected)

\* C2: when the listener started by the last forwarderConnect could not bind
\* its port, forwarderConnect has returned an error and IsConnected() is false.
C2_BindFailureReported ==
    (ret.op = "forwarderConnect" /\ ret.task # 0 /\ tasks[ret.task].st = "exited")
        => (ret.err # "nil" /\ ~IsConnected)

\* C3: sendWithPayload returns an error whenever NSClient.send returned one,
\* and returns nil only when the datagram was written.
C3_SendFailureSurfaces ==
    ret.op = "sendWithPayload" =>
        /\ (ret.send \notin {"none", "nil"} => ret.err # "nil")
        /\ (ret.err = "nil" => ret.send = "nil")

\* C4: when the broker refuses the connection, connectClient returns the
\* error and the client it created is neither connected nor subscribed to the
\* downlink topic; it returns nil only for a client that connected.
C4_ConnectFailure ==
    ret.op = "connectClient" =>
        /\ mqttClient = Len(clients) /\ mqttClient # 0
        /\ (ret.err # "nil" => /\ ~clients[mqttClient].connected
                               /\ ~clients[mqttClient].subscribed)
        /\ (ret.err = "nil" /\ ret.disc = 0 => clients[mqttClient].connected)

\* C4 witness: a refused connection attempt made while an earlier client is
\* connected and subscribed
C4_Witness ==
    /\ ret.op = "connectClient" /\ ret.err = "connect"
    /\ Len(clients) = 2 /\ clients[1].connected /\ clients[1].subscribed

\* C5: Disconnect is idempotent, and after a Disconnect no listener holds the
\* bound UDP socket.
C5_DisconnectIdempotentAndReleases ==
    /\ (mqttClient # 0 => Disconnect(Disconnect(MQTT)) = Disconnect(MQTT))
    /\ (ret.disc > 0 => LiveListeners = {})

\* C6: at most one listener of the UDP transport is bound at any time: the
\* listener of an earlier Connect no longer exists once a later one serves.
C6_AtMostOneListener == Cardinality(ServingListeners) <= 1

\* C7: IsConnected() is true exactly when a listener goroutine is running
\* (started and not returned); it is false once the listener failed to start.
C7_IsConnectedIffListening == IsConnected <=> (LiveListeners # {})

\* C8: a call of sendWithPayload leaves IsConnected() and the listeners as
\* they were, whatever it returns.
C8_SendKeepsConnection ==
    [][sendWithPayload => (IsConnected' = IsConnected /\ tasks' = tasks)]_vars

\* C8 witness: a send whose DialUDP or Write failed while the forwarder is
\* connected and its listener serves
C8_Witness ==
    /\ ret.op = "sendWithPayload" /\ ret.send \in {"dial", "write"}
    /\ IsConnected /\ ServingListeners # {}

\* C9: forwarderConnect with a port string that is not a number returns an
\* error, starts no listener and leaves Server, Port and connected unchanged.
C9_BadPortNoPartialState ==
    [][(forwarderConnect /\ ~Atoi(config.Port).ok)
          => (ret'.err # "nil" /\ cNSClient' = cNSClient /\ tasks' = tasks)]_vars

\* C9 witness: the call failed on the port while the client was connected to
\* another server than the configuration now names
C9_Witness ==
    /\ ret.op = "forwarderConnect" /\ ret.err = "atoi"
    /\ ~Atoi(config.Port).ok
    /\ IsConnected /\ cNSClient.Server # config.Server

\* C10: forwarderConnect with a gateway MAC that is not valid hex returns an
\* error, starts no listener and leaves IsConnected() false.
C10_BadMACAbortsConnect ==
    [][(forwarderConnect /\ ~HexDecodeOk(config.MAC))
          => (ret'.err # "nil" /\ tasks' = tasks /\ IsConnected' = IsConnected)]_vars

\* C11: an inbound datagram of at least 4 bytes whose byte 3 is 0x03 is
\* accepted as a downlink: UDPParsePacket returns isDownlink = true with the
\* decoded body.
C11_PullRespAccepted ==
    (codec.op = "UDPParsePacket" /\ Len(codec.packet) >= 4 /\ codec.packet[4] = 3)
        => (~codec.out.panic /\ codec.out.isDownlink /\ codec.out.err = "nil"
            /\ codec.out.result \notin {"unset", "empty"})

\* C12: for an inbound datagram of at least 4 bytes whose byte 3 is not 0x03
\* UDPParsePacket returns isDownlink = false and no error.
C12_OtherIdNotDownlink ==
    (codec.op = "UDPParsePacket" /\ Len(codec.packet) >= 4 /\ codec.packet[4] # 3)
        => (~codec.out.panic /\ ~codec.out.isDownlink /\ codec.out.err = "nil")

\* C13: UDPParsePacket returns a decode error for every input shorter than 4
\* bytes, and returns normally (no panic) for every input.
C13_ShortInputErrorNeverCrash ==
    codec.op = "UDPParsePacket" =>
        /\ ~codec.out.panic
        /\ (Len(codec.packet) < 4 => codec.out.err # "nil")

\* onReceive returns an error to the Data handler of listener i in this step
ErrorReturns(i) ==
    \E k \in 1..Len(inbound.calls) :
        /\ inbound.calls[k].task = i
        /\ inbound.calls[k].res = "running"
        /\ inbound'.calls[k].res = "error"

\* datagram id waits on the socket of listener i, whose handler has
\* returned an error before
WaitsAfterError(i, id) ==
    /\ i \in 1..Len(tasks)
    /\ \E q \in 1..Len(tasks[i].queue) : tasks[i].queue[q] = id
    /\ \E k \in 1..Len(inbound.calls) :
          inbound.calls[k].task = i /\ inbound.calls[k].res = "error"

\* datagram id has been passed to onReceive by listener i
Passed(i, id) ==
    \E k \in 1..Len(inbound.calls) :
        inbound.calls[k].task = i /\ inbound.calls[k].id = id

\* C14: when onReceive returns an error for a datagram, the listener is not
\* shut down and loses none of the datagrams that wait on its socket, and
\* every datagram that waits on or arrives at that listener afterwards is
\* passed to onReceive.
C14_ErrorKeepsListening ==
    /\ [][\A i \in 1..Len(tasks) :
             ErrorReturns(i) =>
                 /\ tasks'[i].st = "serving"
                 /\ tasks'[i].queue = tasks[i].queue]_vars
    /\ \A i \in 1..MaxListeners : \A id \in 1..MaxDatagrams :
          WaitsAfterError(i, id) ~> Passed(i, id)

\* a listener whose handler returned an error has passed a later datagram
\* to onReceive
C14_Witness ==
    \E k, l \in 1..Len(inbound.calls) :
        /\ k < l
        /\ inbound.calls[k].task = inbound.calls[l].task
        /\ inbound.calls[k].res = "error"
        /\ inbound.calls[k].id < inbound.calls[l].id

\* C19: when connectClient connected and the subscription to the downlink
\* topic failed, the failure is in the log, connectClient returned nil and
\* the client is still connected.
C19_SubscribeFailureLoggedNotFatal ==
    (/\ ret.op = "connectClient"
     /\ ret.disc = 0
     /\ mqttClient # 0
     /\ ret.log[Len(ret.log)] = LogEstablished
     /\ ~clients[mqttClient].subscribed)
    => /\ ret.err = "nil"
       /\ clients[mqttClient].connected
       /\ \E k \in 1..Len(ret.log) : ret.log[k].about = "subscribe"

\* C20: onReceive is called for the datagrams in the order of their arrival,
\* once each, and a call starts only after the call before it has returned:
\* no two calls of onReceive run at the same time.
C20_InOrderNoOverlap ==
    /\ \A k, l \in 1..Len(inbound.calls) :
          k < l => /\ inbound.calls[k].id < inbound.calls[l].id
                   /\ inbound.calls[k].res # "running"
    /\ Cardinality({ i \in 1..Len(tasks) : tasks[i].cur # 0 }) <= 1

\* C15: every datagram sendWithPayload sends has byte 0 = 0x02, the token in
\* bytes 1-2, byte 3 = 0x00, the 8 bytes of the gateway MAC in bytes 4-11
\* ("0011223344556677" gives 00 11 22 33 44 55 66 77) and the JSON body from
\* offset 12; no datagram is sent for a MAC that is not 8 bytes.
C15_PushDataFraming ==
    (codec.op = "sendWithPayload" /\ codec.out.sent) =>
        LET head == codec.out.head
        IN  /\ Len(head) = 12
            /\ head[1] = 2
            /\ 256 * head[2] + head[3] = codec.token % 65536
            /\ head[4] = 0
            /\ (codec.gwMAC = <<"0", "0", "1", "1", "2", "2", "3", "3",
                                "4", "4", "5", "5", "6", "6", "7", "7">>
                  => SubSeq(head, 5, 12) = <<0, 17, 34, 51, 68, 85, 102, 119>>)

\* the spreading factor and the bandwidth read back from a datr string
\* "SF<digits>BW<digits>"
ParseDatR(d) ==
    IF \A i \in 1..Len(d) : d[i] # "B"
    THEN [ok |-> FALSE, sf |-> 0, bw |-> 0]
    ELSE LET k  == CHOOSE i \in 1..Len(d) : d[i] = "B" /\ \A j \in 1..(i - 1) : d[j] # "B"
             sf == Atoi(SubSeq(d, 3, k - 1))
             bw == Atoi(SubSeq(d, k + 2, Len(d)))
         IN  [ok |-> /\ k >= 4 /\ Len(d) >= k + 2
                     /\ SubSeq(d, 1, 2) = <<"S", "F">>
                     /\ SubSeq(d, k, k + 1) = <<"B", "W">>
                     /\ sf.ok /\ bw.ok
                     /\ d[3] \in Digit /\ d[k + 2] \in Digit,
              sf |-> sf.val, bw |-> bw.val]

\* C16: the body sendWithPayload encodes holds exactly one rxpk record, whose
\* datr is "SF{sf}BW{bw}" for the metadata's spreading factor and bandwidth,
\* whose stat is 1, whose modu is "LORA" and whose size is the payload length.
C16_OneRxpkWithDatR ==
    codec.op = "sendWithPayload" =>
        LET rxpk == codec.out.proto.rxpk
        IN  /\ Len(rxpk) = 1
            /\ ParseDatR(rxpk[1].DatR) =
                  [ok |-> TRUE, sf |-> codec.tx.SpreadingFactor, bw |-> codec.tx.Bandwidth]
            /\ rxpk[1].Stat = 1
            /\ rxpk[1].Modu = "LORA"
            /\ rxpk[1].Size = Len(codec.payload)

\* C16 witness: a sent frame for SF12, 500 kHz and a payload of three bytes
C16_Witness ==
    /\ codec.op = "sendWithPayload" /\ codec.out.sent
    /\ codec.tx = [SpreadingFactor |-> 12, Bandwidth |-> 500]
    /\ Len(codec.payload) = 3

B64Valid(c) == \E v \in 1..64 : B64Alphabet[v] = c

B64Index(c) == (CHOOSE v \in 1..64 : B64Alphabet[v] = c) - 1

\* base64.StdEncoding.DecodeString: groups of four characters, padding only
\* in the last group
RECURSIVE Base64Decode(_)
Base64Decode(c) ==
    IF Len(c) = 0 THEN [ok |-> TRUE, bytes |-> <<>>]
    ELSE IF Len(c) < 4 THEN [ok |-> FALSE, bytes |-> <<>>]
    ELSE LET last == Len(c) = 4
             v(i) == B64Index(c[i])
         IN  IF c[3] = "=" /\ c[4] = "="
             THEN IF last /\ B64Valid(c[1]) /\ B64Valid(c[2])
                  THEN [ok |-> TRUE, bytes |-> <<v(1) * 4 + v(2) \div 16>>]
                  ELSE [ok |-> FALSE, bytes |-> <<>>]
             ELSE IF c[4] = "="
             THEN IF last /\ B64Valid(c[1]) /\ B64Valid(c[2]) /\ B64Valid(c[3])
                  THEN [ok |-> TRUE,
                        bytes |-> <<v(1) * 4 + v(2) \div 16,
                                    (v(2) % 16) * 16 + v(3) \div 4>>]
                  ELSE [ok |-> FALSE, bytes |-> <<>>]
             ELSE IF \A i \in 1..4 : B64Valid(c[i])
             THEN LET rest == Base64Decode(SubSeq(c, 5, Len(c)))
                  IN  [ok |-> rest.ok,
                       bytes |-> <<v(1) * 4 + v(2) \div 16,
                                   (v(2) % 16) * 16 + v(3) \div 4,
                                   (v(3) % 4) * 64 + v(4)>> \o rest.bytes]
             ELSE [ok |-> FALSE, bytes |-> <<>>]

\* C17: base64-decoding the data field of the rxpk record that
\* sendWithPayload encodes gives back the payload.
C17_Base64RoundTrip ==
    codec.op = "sendWithPayload" =>
        Base64Decode(codec.out.proto.rxpk[1].Data) =
            [ok |-> TRUE, bytes |-> codec.payload]

\* C17 witness: an encoded payload of two bytes, which needs padding, with
\* bytes that use all three sextet positions
C17_Witness ==
    /\ codec.op = "sendWithPayload"
    /\ codec.payload = <<255, 77>>
    /\ codec.out.proto.rxpk[1].Data = <<"/", "0", "0", "=">>

\* C18: tmms is the time since GPS epoch in milliseconds:
\* seconds * 1000 + nanos / 1000000.
C18_TmmsMilliseconds ==
    (codec.op = "sendWithPayload" /\ codec.out.sent) =>
        codec.out.proto.rxpk[1].TMMS =
            codec.rx.gps.Seconds * 1000 + codec.rx.gps.Nanos \div 1000000

\* the paho clients created by connectClient that are connected and
\* subscribed to the downlink topic: each of them calls onIncomingDownlink
\* for a message the broker publishes
SubscribedSessions ==
    { i \in 1..Len(clients) : clients[i].connected /\ clients[i].subscribed }

\* C21: at most one MQTT client created by connectClient is connected and
\* subscribed to the downlink topic, whatever Connect and Disconnect clicks
\* came before: a downlink message reaches onIncomingDownlink at most once.
C21_AtMostOneSession == Cardinality(SubscribedSessions) <= 1

\* C22: whenever the UDP forwarder is connected, every listener that holds a
\* bound socket is bound to the current cNSClient.Port, the port uplinks are
\* sent to.
C22_ListenerPortIsClientPort ==
    IsConnected => \A i \in ServingListeners : tasks[i].port = cNSClient.Port

====
